---- MODULE Spec2Model ----
(***************************************************************************)
(* State-machine model of the Anchor program bank_program                  *)
(* (src/public/bank.rs): a per-account u64 balance with the entry points   *)
(* initialize, deposit, withdraw and get_balance, the account constraints  *)
(* of their Accounts structs, the event channel fed by emit! and the log   *)
(* fed by msg!.                                                            *)
(***************************************************************************)
EXTENDS Integers, Sequences, FiniteSets, TLC

\* ------------------------------------------------------------------ bounds
\* Width of the balance word.  The program's word is u64; the model keeps
\* the same modular arithmetic on a narrower word.
WordBits == 3

\* Number of log lines (one per successful invocation) after which no
\* further invocation is explored.
MaxLogs == 3

\* ------------------------------------------------------------ input sets
U64_MAX == 2^WordBits - 1

U64 == 0..U64_MAX

Addresses == {"A", "B"}

Signers == {"S1", "S2"}

\* Amounts passed to deposit and withdraw: the small ones and the ones next
\* to the top of the word.
Amounts == {0, 1, 2, U64_MAX - 1, U64_MAX}

VARIABLES
    bank,             \* Address -> storage slot of the BankAccount at that address
    events,           \* the event channel: sequence of emitted events
    logs,             \* the program log: sequence of msg! lines
    overflow_checks,  \* build profile: does `+=` on u64 panic on overflow?
    last,             \* the most recent invocation and its result
    pre,              \* bank, events and logs when that invocation started
    committed         \* history: the invocations that returned Ok, in order

vars == <<bank, events, logs, overflow_checks, last, pre, committed>>

\* ------------------------------------------------------- data definitions
\* A storage slot nobody has created yet: no owner program, zeroed data.
Uninitialized == [live |-> FALSE, balance |-> 0]

BankAccount(balance) == [live |-> TRUE, balance |-> balance]

DepositEvent(owner, amount, new_balance) ==
    [type |-> "DepositEvent", owner |-> owner, amount |-> amount,
     new_balance |-> new_balance]

WithdrawEvent(owner, amount, new_balance) ==
    [type |-> "WithdrawEvent", owner |-> owner, amount |-> amount,
     new_balance |-> new_balance]

GetBalanceEvent(owner, balance) ==
    [type |-> "GetBalanceEvent", owner |-> owner, balance |-> balance]

\* A msg! line: its format string and the values formatted into it.
msg(fmt, args) == [fmt |-> fmt, args |-> args]

\* What a handler hands back to the dispatcher: its Result, the balance it
\* left in ctx.accounts.bank_account, and what it emitted and logged.
Ok(balance, emitted, logged) ==
    [result |-> "Ok", balance |-> balance, events |-> emitted, logs |-> logged]

Err(code, balance) ==
    [result |-> code, balance |-> balance, events |-> <<>>, logs |-> <<>>]

\* ------------------------------------------------------------- arithmetic
\* Variant: the sum is kept at full precision, as if the field were wider
\* than the word.
add_assign_unbounded(checks, balance, amount) ==
    IF balance + amount > U64_MAX /\ checks
    THEN [panic |-> TRUE, value |-> balance]
    ELSE [panic |-> FALSE, value |-> balance + amount]

\* u64 `+=`: panics on overflow when the build has overflow checks, wraps
\* modulo 2^w otherwise.
add_assign(checks, balance, amount) ==
    IF balance + amount > U64_MAX /\ checks
    THEN [panic |-> TRUE, value |-> balance]
    ELSE [panic |-> FALSE, value |-> (balance + amount) % (U64_MAX + 1)]

\* Variant: the `+=` of deposit pasted into withdraw.
sub_assign_added(checks, balance, amount) ==
    IF balance + amount > U64_MAX /\ checks
    THEN [panic |-> TRUE, value |-> balance]
    ELSE [panic |-> FALSE, value |-> (balance + amount) % (U64_MAX + 1)]

\* u64 `-=`: same rule for underflow.
sub_assign(checks, balance, amount) ==
    IF balance < amount /\ checks
    THEN [panic |-> TRUE, value |-> balance]
    ELSE [panic |-> FALSE, value |-> (balance - amount) % (U64_MAX + 1)]

\* ---------------------------------------------------------------- handlers
\* Variant: a zero amount is rejected.
deposit_nonzero(checks, ctx, amount) ==
    LET sum == add_assign(checks, ctx.bank_account.balance, amount) IN
    IF amount = 0
    THEN Err("InvalidAmount", ctx.bank_account.balance)
    ELSE IF sum.panic
    THEN Err("ArithmeticOverflow", ctx.bank_account.balance)
    ELSE Ok(sum.value,
            <<DepositEvent(ctx.signer, amount, sum.value)>>,
            <<msg("Deposited {} into the account. New balance: {}",
                  <<amount, sum.value>>)>>)

\* Variant: the event is built before the balance is updated.
deposit_emit_first(checks, ctx, amount) ==
    LET sum == add_assign(checks, ctx.bank_account.balance, amount) IN
    IF sum.panic
    THEN Err("ArithmeticOverflow", ctx.bank_account.balance)
    ELSE Ok(sum.value,
            <<DepositEvent(ctx.signer, amount, ctx.bank_account.balance)>>,
            <<msg("Deposited {} into the account. New balance: {}",
                  <<amount, sum.value>>)>>)

deposit(checks, ctx, amount) ==
    LET sum == add_assign(checks, ctx.bank_account.balance, amount) IN
    IF sum.panic
    THEN Err("ArithmeticOverflow", ctx.bank_account.balance)
    ELSE Ok(sum.value,
            <<DepositEvent(ctx.signer, amount, sum.value)>>,
            <<msg("Deposited {} into the account. New balance: {}",
                  <<amount, sum.value>>)>>)

\* Variant: only one fixed authority may withdraw.
withdraw_admin_only(checks, ctx, amount) ==
    IF ctx.signer # "S1"
    THEN Err("Unauthorized", ctx.bank_account.balance)
    ELSE IF ctx.bank_account.balance < amount
    THEN Err("InsufficientBalance", ctx.bank_account.balance)
    ELSE LET diff == sub_assign(checks, ctx.bank_account.balance, amount) IN
         IF diff.panic
         THEN Err("ArithmeticOverflow", ctx.bank_account.balance)
         ELSE Ok(diff.value,
                 <<WithdrawEvent(ctx.signer, amount, diff.value)>>,
                 <<msg("Withdrew {} from the account. New balance: {}",
                       <<amount, diff.value>>)>>)

\* Variant: the sufficient-funds check is `<=` instead of `<`.
withdraw_le(checks, ctx, amount) ==
    IF ctx.bank_account.balance <= amount
    THEN Err("InsufficientBalance", ctx.bank_account.balance)
    ELSE LET diff == sub_assign(checks, ctx.bank_account.balance, amount) IN
         IF diff.panic
         THEN Err("ArithmeticOverflow", ctx.bank_account.balance)
         ELSE Ok(diff.value,
                 <<WithdrawEvent(ctx.signer, amount, diff.value)>>,
                 <<msg("Withdrew {} from the account. New balance: {}",
                       <<amount, diff.value>>)>>)

\* Variant: the sufficient-funds check is missing.
withdraw_unchecked(checks, ctx, amount) ==
    LET diff == sub_assign(checks, ctx.bank_account.balance, amount) IN
    IF diff.panic
    THEN Err("ArithmeticOverflow", ctx.bank_account.balance)
    ELSE Ok(diff.value,
            <<WithdrawEvent(ctx.signer, amount, diff.value)>>,
            <<msg("Withdrew {} from the account. New balance: {}",
                  <<amount, diff.value>>)>>)

withdraw(checks, ctx, amount) ==
    IF ctx.bank_account.balance < amount
    THEN Err("InsufficientBalance", ctx.bank_account.balance)
    ELSE LET diff == sub_assign(checks, ctx.bank_account.balance, amount) IN
         IF diff.panic
         THEN Err("ArithmeticOverflow", ctx.bank_account.balance)
         ELSE Ok(diff.value,
                 <<WithdrawEvent(ctx.signer, amount, diff.value)>>,
                 <<msg("Withdrew {} from the account. New balance: {}",
                       <<amount, diff.value>>)>>)

\* Variant: the emit! is missing, only the log line is written.
get_balance_no_event(ctx) ==
    Ok(ctx.bank_account.balance,
       <<>>,
       <<msg("Account balance: {}", <<ctx.bank_account.balance>>)>>)

get_balance(ctx) ==
    Ok(ctx.bank_account.balance,
       <<GetBalanceEvent(ctx.signer, ctx.bank_account.balance)>>,
       <<msg("Account balance: {}", <<ctx.bank_account.balance>>)>>)

\* Variant: initialize reports the new balance on the event channel.
initialize_with_event(ctx) ==
    Ok(0, <<GetBalanceEvent(ctx.signer, 0)>>,
       <<msg("Bank account initialized with balance: 0", <<>>)>>)

initialize(ctx) ==
    Ok(0, <<>>, <<msg("Bank account initialized with balance: 0", <<>>)>>)

\* ------------------------------------------------------ account constraints
\* #[account(init, ...)]: the slot is created for this program; creation is
\* refused when the address is already in use.
\* Variant: init_if_needed, an existing account is accepted as it is.
init_account_if_needed(slot) ==
    IF slot.live
    THEN [result |-> "Ok", account |-> slot]
    ELSE [result |-> "Ok", account |-> BankAccount(0)]

init_account(slot) ==
    IF slot.live
    THEN [result |-> "AccountAlreadyInUse", account |-> slot]
    ELSE [result |-> "Ok", account |-> BankAccount(0)]

\* Account<'info, BankAccount>: the slot must hold a BankAccount of this
\* program.
\* Variant: the slot is taken as it is, without the owner and discriminator
\* checks of Account<'info, T>.
load_account_unchecked(slot) ==
    [result |-> "Ok", account |-> slot]

load_account(slot) ==
    IF slot.live
    THEN [result |-> "Ok", account |-> slot]
    ELSE [result |-> "AccountNotInitialized", account |-> slot]

\* -------------------------------------------------------------- dispatcher
\* One invocation of an entry point: `loaded` is the outcome of resolving the
\* Accounts struct, `run` the handler applied to the resolved context.  The
\* account is written back, and the events and log lines kept, only when the
\* handler returned Ok; a writable (mut / init) account is the only one
\* written back.
\* Variant: every address resolves to one shared storage slot.
Invoke_shared_slot(op, a, signer, amount, loaded, out, writable) ==
    LET result == IF loaded.result # "Ok" THEN loaded.result ELSE out.result IN
    /\ Len(logs) < MaxLogs
    /\ pre' = [bank |-> bank, events |-> events, logs |-> logs]
    /\ last' = [op |-> op, account |-> a, signer |-> signer,
                amount |-> amount, result |-> result]
    /\ IF result = "Ok"
       THEN /\ bank' = IF writable
                       THEN [b \in Addresses |-> BankAccount(out.balance)]
                       ELSE bank
            /\ events' = events \o out.events
            /\ logs' = logs \o out.logs
            /\ committed' = Append(committed, [op |-> op, account |-> a,
                                               signer |-> signer, amount |-> amount])
       ELSE UNCHANGED <<bank, events, logs, committed>>
    /\ UNCHANGED overflow_checks

\* Variant: what the handler produced is kept whatever the invocation
\* returned.
Invoke_no_rollback(op, a, signer, amount, loaded, out, writable) ==
    LET result == IF loaded.result # "Ok" THEN loaded.result ELSE out.result IN
    /\ Len(logs) < MaxLogs
    /\ pre' = [bank |-> bank, events |-> events, logs |-> logs]
    /\ last' = [op |-> op, account |-> a, signer |-> signer,
                amount |-> amount, result |-> result]
    /\ bank' = IF writable
               THEN [bank EXCEPT ![a] = BankAccount(out.balance)]
               ELSE bank
    /\ events' = events \o out.events
    /\ logs' = logs \o out.logs
    /\ committed' = IF result = "Ok"
                    THEN Append(committed, [op |-> op, account |-> a,
                                            signer |-> signer, amount |-> amount])
                    ELSE committed
    /\ UNCHANGED overflow_checks

Invoke(op, a, signer, amount, loaded, out, writable) ==
    LET result == IF loaded.result # "Ok" THEN loaded.result ELSE out.result IN
    /\ Len(logs) < MaxLogs
    /\ pre' = [bank |-> bank, events |-> events, logs |-> logs]
    /\ last' = [op |-> op, account |-> a, signer |-> signer,
                amount |-> amount, result |-> result]
    /\ IF result = "Ok"
       THEN /\ bank' = IF writable
                       THEN [bank EXCEPT ![a] = BankAccount(out.balance)]
                       ELSE bank
            /\ events' = events \o out.events
            /\ logs' = logs \o out.logs
            /\ committed' = Append(committed, [op |-> op, account |-> a,
                                               signer |-> signer, amount |-> amount])
       ELSE UNCHANGED <<bank, events, logs, committed>>
    /\ UNCHANGED overflow_checks

Context(loaded, signer) == [bank_account |-> loaded.account, signer |-> signer]

Initialize(a, signer) ==
    LET loaded == init_account(bank[a]) IN
    Invoke("initialize", a, signer, 0, loaded,
           initialize(Context(loaded, signer)), TRUE)

Deposit(a, signer, amount) ==
    LET loaded == load_account(bank[a]) IN
    Invoke("deposit", a, signer, amount, loaded,
           deposit(overflow_checks, Context(loaded, signer), amount), TRUE)

Withdraw(a, signer, amount) ==
    LET loaded == load_account(bank[a]) IN
    Invoke("withdraw", a, signer, amount, loaded,
           withdraw(overflow_checks, Context(loaded, signer), amount), TRUE)

GetBalance(a, signer) ==
    LET loaded == load_account(bank[a]) IN
    Invoke("get_balance", a, signer, 0, loaded,
           get_balance(Context(loaded, signer)), FALSE)

\* ------------------------------------------------------------ specification
Init ==
    /\ bank = [a \in Addresses |-> Uninitialized]
    /\ events = <<>>
    /\ logs = <<>>
    /\ overflow_checks \in BOOLEAN
    /\ last = [op |-> "none", account |-> "A", signer |-> "S1",
               amount |-> 0, result |-> "Ok"]
    /\ pre = [bank |-> [a \in Addresses |-> Uninitialized],
              events |-> <<>>, logs |-> <<>>]
    /\ committed = <<>>

Next ==
    \/ \E a \in Addresses, s \in Signers : Initialize(a, s)
    \/ \E a \in Addresses, s \in Signers, amount \in Amounts : Deposit(a, s, amount)
    \/ \E a \in Addresses, s \in Signers, amount \in Amounts : Withdraw(a, s, amount)
    \/ \E a \in Addresses, s \in Signers : GetBalance(a, s)

Spec == Init /\ [][Next]_vars

TypeOK ==
    /\ bank \in [Addresses -> [live : BOOLEAN, balance : U64]]
    /\ overflow_checks \in BOOLEAN
    /\ Len(logs) <= MaxLogs
    /\ Len(events) <= Len(logs)
    /\ Len(committed) = Len(logs)

\* ------------------------------------------------------------------ claims
\* The account the last invocation referenced, before and after it.
PreAccount == pre.bank[last.account]

PostAccount == bank[last.account]

InitializedLine == msg("Bank account initialized with balance: 0", <<>>)

\* C1: a deposit on a live account whose balance + amount exceeds the top of
\* the word fails with an arithmetic-overflow error, leaves the stored
\* balance as it was and emits no DepositEvent.
C1_DepositOverflowFails ==
    (/\ last.op = "deposit"
     /\ PreAccount.live
     /\ PreAccount.balance + last.amount > U64_MAX)
    => (/\ last.result = "ArithmeticOverflow"
        /\ bank = pre.bank
        /\ events = pre.events)

\* C2: a withdraw on a live account whose balance is below the amount fails
\* with InsufficientBalance, leaves the stored balance unchanged and emits no
\* WithdrawEvent.
C2_WithdrawInsufficient ==
    (/\ last.op = "withdraw"
     /\ PreAccount.live
     /\ PreAccount.balance < last.amount)
    => (/\ last.result = "InsufficientBalance"
        /\ bank = pre.bank
        /\ events = pre.events)

C2_Witness ==
    /\ last.op = "withdraw"
    /\ PreAccount.live
    /\ PreAccount.balance > 0
    /\ PreAccount.balance < last.amount
    /\ last.result = "InsufficientBalance"

\* C3: after a successful withdraw(a) the balance before was at least a and
\* the balance after is exactly the balance before minus a (the subtraction
\* never underflows).
C3_WithdrawExact ==
    (last.op = "withdraw" /\ last.result = "Ok")
    => (/\ PreAccount.live
        /\ PreAccount.balance >= last.amount
        /\ PostAccount.balance = PreAccount.balance - last.amount)

C3_Witness ==
    /\ last.op = "withdraw"
    /\ last.result = "Ok"
    /\ last.amount > 0
    /\ PostAccount.balance > 0
    /\ PostAccount.balance = PreAccount.balance - last.amount

\* C4: after a successful deposit(a) the balance after is the exact integer
\* sum of the balance before and a; no successful deposit happens where that
\* sum exceeds the top of the word.
C4_DepositExact ==
    (last.op = "deposit" /\ last.result = "Ok")
    => (/\ PostAccount.balance = PreAccount.balance + last.amount
        /\ PreAccount.balance + last.amount <= U64_MAX)

\* C5: a failing invocation of any entry point ends in the state it started
\* in (same balances, no event added, no log line written); the balance
\* mutation and the event of one invocation persist together, on Ok only.
C5_FailureIsNoOp ==
    /\ (last.op # "none" /\ last.result # "Ok")
       => (bank = pre.bank /\ events = pre.events /\ logs = pre.logs)
    /\ (last.op \in {"deposit", "withdraw"} /\ last.result = "Ok")
       => (/\ Len(events) = Len(pre.events) + 1
           /\ Len(logs) = Len(pre.logs) + 1
           /\ PostAccount.balance = events[Len(events)].new_balance)

C5_Witness ==
    /\ last.op = "initialize"
    /\ last.result # "Ok"
    /\ PreAccount.balance > 0
    /\ Len(pre.events) > 0
    /\ bank = pre.bank

\* C6: the event of a successful deposit or withdraw carries the stored
\* balance after the call as new_balance, the amount argument as amount and
\* the key of the invocation's signer as owner.
C6_EventPayload ==
    (last.op \in {"deposit", "withdraw"} /\ last.result = "Ok")
    => (/\ Len(events) = Len(pre.events) + 1
        /\ LET e == events[Len(events)] IN
           /\ e.type = (IF last.op = "deposit" THEN "DepositEvent"
                                               ELSE "WithdrawEvent")
           /\ e.new_balance = PostAccount.balance
           /\ e.amount = last.amount
           /\ e.owner = last.signer)

C6_Witness ==
    /\ last.op = "deposit"
    /\ last.result = "Ok"
    /\ last.signer = "S2"
    /\ PreAccount.balance > 0
    /\ last.amount > 0
    /\ events[Len(events)] =
         DepositEvent("S2", last.amount, PreAccount.balance + last.amount)

\* C7: get_balance on a live account succeeds, changes no account, and emits
\* exactly one GetBalanceEvent carrying the stored balance and the signer's
\* key.
C7_GetBalancePure ==
    (last.op = "get_balance" /\ PreAccount.live)
    => (/\ last.result = "Ok"
        /\ bank = pre.bank
        /\ events = Append(pre.events,
                           GetBalanceEvent(last.signer, PreAccount.balance)))

C7_Witness ==
    /\ last.op = "get_balance"
    /\ last.result = "Ok"
    /\ PostAccount.balance > 0
    /\ events = Append(pre.events,
                       GetBalanceEvent(last.signer, PostAccount.balance))

\* C8: right after a successful initialize the account's balance is 0 and
\* the call emitted no event; a get_balance that directly follows it reports
\* balance 0.
C8_InitializeZero ==
    [][/\ (last'.op = "initialize" /\ last'.result = "Ok")
          => (/\ bank'[last'.account] = BankAccount(0)
              /\ events' = events)
       /\ (/\ last.op = "initialize" /\ last.result = "Ok"
           /\ last'.op = "get_balance" /\ last'.account = last.account)
          => (/\ last'.result = "Ok"
              /\ events' = Append(events, GetBalanceEvent(last'.signer, 0))
              /\ bank'[last'.account].balance = 0)]_vars

C8_Witness ==
    /\ last.op = "get_balance"
    /\ last.result = "Ok"
    /\ pre.logs = <<InitializedLine>>
    /\ events = <<GetBalanceEvent(last.signer, 0)>>
    /\ PostAccount = BankAccount(0)

\* C9: initialize succeeds at most once per address: on a live account it is
\* refused and does not reset the balance; a live account stays live after
\* every operation.
C9_InitializeOnce ==
    [][\A a \in Addresses :
          bank[a].live
          => (/\ bank'[a].live
              /\ (last'.op = "initialize" /\ last'.account = a)
                 => (last'.result # "Ok" /\ bank'[a] = bank[a]))]_vars

C9_Witness ==
    /\ last.op = "initialize"
    /\ last.result = "AccountAlreadyInUse"
    /\ PreAccount.live
    /\ PostAccount.live
    /\ PostAccount.balance > 0

\* C10: deposit, withdraw and get_balance on an uninitialized account fail,
\* leave it uninitialized and emit no event; a balance changes only on a live
\* account and only through a successful deposit or withdraw on it.
C10_RequireLive ==
    /\ (last.op \in {"deposit", "withdraw", "get_balance"} /\ ~PreAccount.live)
       => (/\ last.result # "Ok"
           /\ PostAccount = Uninitialized
           /\ bank = pre.bank
           /\ events = pre.events)
    /\ \A b \in Addresses :
          bank[b].balance # pre.bank[b].balance
          => (/\ pre.bank[b].live
              /\ last.op \in {"deposit", "withdraw"}
              /\ last.account = b
              /\ last.result = "Ok")

C10_Witness ==
    /\ last.op = "deposit"
    /\ last.amount > 0
    /\ ~PreAccount.live
    /\ last.result = "AccountNotInitialized"
    /\ \E b \in Addresses : bank[b].live /\ bank[b].balance > 0

\* C11: in every reachable state the balance of every live account is an
\* integer between 0 and the top of the word.
C11_BalanceInRange ==
    \A a \in Addresses :
        bank[a].live => (bank[a].balance >= 0 /\ bank[a].balance <= U64_MAX)

C11_Witness ==
    /\ last.op = "deposit"
    /\ last.result = "Ok"
    /\ PreAccount.balance + last.amount >= U64_MAX
    /\ last.amount > 0
    /\ PostAccount.live
    /\ PostAccount.balance \in U64

\* An event without its attribution field, and a handler's outcome as the
\* caller and the account see it once the owner fields are left out.
EraseOwner(e) == [f \in (DOMAIN e) \ {"owner"} |-> e[f]]

Outcome(loaded, out) ==
    IF loaded.result # "Ok"
    THEN [result |-> loaded.result, balance |-> loaded.account.balance,
          events |-> <<>>, logs |-> <<>>]
    ELSE [result |-> out.result, balance |-> out.balance,
          events |-> [i \in 1..Len(out.events) |-> EraseOwner(out.events[i])],
          logs |-> out.logs]

\* The outcome of entry point op on storage slot `slot` for signer s.
OutcomeOf(op, slot, s, amount) ==
    LET loaded == load_account(slot)
        ctx == Context(loaded, s)
    IN  Outcome(loaded,
                IF op = "deposit" THEN deposit(overflow_checks, ctx, amount)
                ELSE IF op = "withdraw" THEN withdraw(overflow_checks, ctx, amount)
                ELSE get_balance(ctx))

\* C12: the outcome of deposit, withdraw and get_balance (success or failure,
\* resulting balance, every event field but owner) is the same for every
\* signer, in every reachable state and for every account and amount; the
\* call that was last made would have ended the same way for any other
\* signer.
C12_SignerIndependent ==
    /\ \A op \in {"deposit", "withdraw", "get_balance"} :
         \A a \in Addresses, amount \in Amounts :
            LET o == OutcomeOf(op, bank[a], "S1", amount) IN
            \A s \in Signers : OutcomeOf(op, bank[a], s, amount) = o
    /\ (last.op \in {"deposit", "withdraw", "get_balance"})
       => \A s \in Signers :
             LET o == OutcomeOf(last.op, PreAccount, s, last.amount) IN
             /\ o.result = last.result
             /\ o.balance = PostAccount.balance
             /\ Len(events) = Len(pre.events) + Len(o.events)
             /\ \A i \in 1..Len(o.events) :
                   EraseOwner(events[Len(pre.events) + i]) = o.events[i]

C12_Witness ==
    /\ Len(committed) = 3
    /\ committed[1] = [op |-> "initialize", account |-> last.account,
                       signer |-> "S1", amount |-> 0]
    /\ committed[2].op = "deposit"
    /\ committed[2].signer = "S1"
    /\ last.op = "withdraw"
    /\ last.signer = "S2"
    /\ last.amount > 0
    /\ last.result = "Ok"
    /\ PostAccount.balance = PreAccount.balance - last.amount

\* C13: deposit(0) and withdraw(0) on a live account succeed (withdraw(0)
\* also at balance 0), leave the balance unchanged and emit their event with
\* amount 0 and new_balance equal to the unchanged balance.
C13_ZeroAmount ==
    (/\ last.op \in {"deposit", "withdraw"}
     /\ last.amount = 0
     /\ PreAccount.live)
    => (/\ last.result = "Ok"
        /\ bank = pre.bank
        /\ events = Append(pre.events,
                           IF last.op = "deposit"
                           THEN DepositEvent(last.signer, 0, PreAccount.balance)
                           ELSE WithdrawEvent(last.signer, 0, PreAccount.balance)))

C13_Witness ==
    /\ last.op = "withdraw"
    /\ last.amount = 0
    /\ PreAccount.live
    /\ PreAccount.balance = 0
    /\ last.result = "Ok"
    /\ \E i \in 1..Len(committed) :
          committed[i].op = "deposit" /\ committed[i].amount = 0

\* C14: withdraw(a) on a live account succeeds whenever balance >= a, so
\* InsufficientBalance is its only failure; withdrawing exactly the balance
\* succeeds and leaves new_balance = 0.
C14_WithdrawSucceeds ==
    (last.op = "withdraw" /\ PreAccount.live)
    => (/\ last.result \in {"Ok", "InsufficientBalance"}
        /\ (PreAccount.balance >= last.amount) => (last.result = "Ok")
        /\ (PreAccount.balance = last.amount)
           => (/\ PostAccount.balance = 0
               /\ events = Append(pre.events,
                                  WithdrawEvent(last.signer, last.amount, 0))))

C14_Witness ==
    /\ last.op = "withdraw"
    /\ PreAccount.live
    /\ PreAccount.balance = U64_MAX
    /\ last.amount = U64_MAX
    /\ last.result = "Ok"
    /\ PostAccount.balance = 0

\* C16: an invocation on one account leaves the lifecycle state and the
\* balance of every other account unchanged.
C16_OtherAccountsUntouched ==
    (last.op # "none")
    => \A b \in Addresses : b # last.account => bank[b] = pre.bank[b]

C16_Witness ==
    /\ last.op = "deposit"
    /\ last.result = "Ok"
    /\ last.amount > 0
    /\ PostAccount.balance # PreAccount.balance
    /\ \E b \in Addresses :
          b # last.account /\ bank[b].live /\ bank[b] = pre.bank[b]

\* The exact (unbounded) sum of the amounts of the first i committed
\* invocations on account a: deposits count positive, withdrawals negative,
\* initialize starts from 0.
RECURSIVE NetOf(_, _)
NetOf(a, i) ==
    IF i = 0 THEN 0
    ELSE LET c == committed[i] IN
         IF c.account # a THEN NetOf(a, i - 1)
         ELSE IF c.op = "initialize" THEN 0
         ELSE IF c.op = "deposit" THEN NetOf(a, i - 1) + c.amount
         ELSE IF c.op = "withdraw" THEN NetOf(a, i - 1) - c.amount
         ELSE NetOf(a, i - 1)

\* C17: the stored balance of a live account is the sum of the amounts of
\* its successful deposits minus the sum of the amounts of its successful
\* withdrawals since its initialize.
C17_BalanceIsNetSum ==
    \A a \in Addresses :
        bank[a].live => bank[a].balance = NetOf(a, Len(committed))

\* The committed invocations that emit an event: all but initialize.
Emitting == SelectSeq(committed, LAMBDA c : c.op # "initialize")

Mutating(c) == c.op \in {"deposit", "withdraw"}

\* The new_balance of the latest deposit or withdraw event before position i
\* on the account of the i-th emitting invocation, 0 if there is none.
PreviousBalance(i) ==
    LET earlier == {j \in 1..(i - 1) :
                      /\ Mutating(Emitting[j])
                      /\ Emitting[j].account = Emitting[i].account}
    IN  IF earlier = {} THEN 0
        ELSE events[CHOOSE j \in earlier : \A k \in earlier : k <= j].new_balance

\* C18: the event channel holds exactly one event per successful deposit,
\* withdraw or get_balance, in commit order, none for initialize or for a
\* failed call; per account, each deposit/withdraw event's new_balance is the
\* previous one's new_balance (0 if none) plus/minus its own amount.
C18_EventChannel ==
    /\ Len(events) = Len(Emitting)
    /\ (last.op # "none" /\ last.result # "Ok") => events = pre.events
    /\ \A i \in 1..Len(Emitting) :
         i <= Len(events)
         => LET c == Emitting[i]
                e == events[i]
            IN  /\ e.owner = c.signer
                /\ e.type = (IF c.op = "deposit" THEN "DepositEvent"
                             ELSE IF c.op = "withdraw" THEN "WithdrawEvent"
                             ELSE "GetBalanceEvent")
                /\ Mutating(c)
                   => (/\ e.amount = c.amount
                       /\ e.new_balance =
                            (IF c.op = "deposit"
                             THEN PreviousBalance(i) + c.amount
                             ELSE PreviousBalance(i) - c.amount))

====
